---- MODULE Spec2Model ----
(***************************************************************************)
(* A model of the trampoline crate (src/src/hook.rs, src/src/lib.rs,       *)
(* src/src/error.rs): Hook and TrampolineHook over a byte-accurate source  *)
(* region, a page protection and the gateways VirtualAlloc hands out.      *)
(*                                                                         *)
(* Addresses and usize/isize values are little-endian byte sequences of    *)
(* target_pointer_width / 8 bytes, so that the arithmetic keeps the width  *)
(* of the target (TLC's integers are too narrow for a 64-bit address).     *)
(***************************************************************************)
EXTENDS Integers, Sequences, FiniteSets, TLC

VARIABLES
    target_pointer_width,  \* cfg!(target_pointer_width): fixed by the build
    JMP_SIZE,              \* lib.rs:84-88, fixed by the build
    overflow_checks,       \* build profile: arithmetic overflow panics (debug) or wraps (release)
    src,                   \* address of the patched function (byte sequence)
    mem,                   \* the bytes at src, src+1, ... (index i is address src+i-1)
    prot,                  \* page protection of the source region
    gws,                   \* every gateway VirtualAlloc returned, in order
    hooks,                 \* the caller's hook() calls and the handle each returned, if any
    failures,              \* OS calls the OS has refused so far
    last                   \* the last call: its arguments, result, OS calls and the state before it

vars == <<target_pointer_width, JMP_SIZE, overflow_checks, src, mem, prot, gws, hooks, failures, last>>

(* ------------------------------ bounds --------------------------------- *)

\* hook() calls the caller makes over one run
MaxHandles == 2
\* OS calls the OS refuses over one run
MaxFailures == 1
\* gateways VirtualAlloc hands out over one run
MaxGateways == 2
\* a patch length is at most JMP_SIZE + MaxExtra
MaxExtra == 1
\* VirtualFree calls one gateway receives from explicit unhook() calls
MaxFrees == 2

Handles == 1..MaxHandles
\* the lengths a caller passes: one below the minimum, the minimum, and above
Lens == (JMP_SIZE - 1)..(JMP_SIZE + MaxExtra)
\* the modelled bytes reach two bytes past the longest patch
RegionLen == JMP_SIZE + MaxExtra + 2

(* ------------------------- usize / isize --------------------------------- *)

PtrBytes == target_pointer_width \div 8

\* a small number as a usize
usize(n) == [i \in 1..PtrBytes |-> IF i = 1 THEN n % 256 ELSE IF i = 2 THEN (n \div 256) % 256 ELSE 0]

RECURSIVE AddC(_, _, _)
AddC(a, b, c) ==
    IF a = <<>> THEN <<>>
    ELSE LET s == Head(a) + Head(b) + c
         IN  <<s % 256>> \o AddC(Tail(a), Tail(b), s \div 256)

Complement(a) == [i \in 1..Len(a) |-> 255 - a[i]]
wrapping_add(a, b) == AddC(a, b, 0)
wrapping_sub(a, b) == AddC(a, Complement(b), 1)
\* the sign of a value read as isize
Negative(a) == a[Len(a)] >= 128
\* a - b as isize leaves the range of isize
sub_overflows(a, b) ==
    /\ Negative(a) # Negative(b)
    /\ Negative(wrapping_sub(a, b)) # Negative(a)

(* ------------------------------ memory ----------------------------------- *)

NULL == [i \in 1..PtrBytes |-> 0]

\* bytes written at offset off of m (offsets count from 0)
WriteAt(m, off, bytes) ==
    [i \in 1..Len(m) |-> IF i > off /\ i <= off + Len(bytes) THEN bytes[i - off] ELSE m[i]]

\* std::ptr::write_bytes(dst, val, count)
write_bytes(m, val, count) == WriteAt(m, 0, [i \in 1..count |-> val])

\* std::ptr::copy_nonoverlapping(src, dst, count): count bytes of from, to offset off of m
copy_nonoverlapping(from, m, off, count) == WriteAt(m, off, SubSeq(from, 1, count))

(* ------------------------------ the OS ----------------------------------- *)

Event(call, arg, ok) == [call |-> call, arg |-> arg, ok |-> ok]

\* A world is what the calls read and write: the source bytes, their protection,
\* the gateways, and the OS calls and writes made so far by the running call.
World == [mem |-> mem, prot |-> prot, gws |-> gws, trace |-> <<>>]

\* VirtualProtect(src, len, flNew, &mut old).ok(): on success the region gets
\* flNew and old receives the previous protection; on failure nothing changes.
VirtualProtect(w, flNew, ok) ==
    IF ok
    THEN [ok |-> TRUE, old |-> w.prot,
          w |-> [w EXCEPT !.prot = flNew, !.trace = Append(@, Event("VirtualProtect", flNew, TRUE))]]
    ELSE [ok |-> FALSE, old |-> "PAGE_DEFAULT",
          w |-> [w EXCEPT !.trace = Append(@, Event("VirtualProtect", flNew, FALSE))]]

\* a write to the source region, as the running call makes it
WriteSrc(w, m) == [w EXCEPT !.mem = m, !.trace = Append(@, Event("write", "src", TRUE))]

\* a write to gateway g, as the running call makes it
WriteGw(w, g, bytes) ==
    [w EXCEPT !.gws[g].bytes = bytes, !.trace = Append(@, Event("write", "gateway", TRUE))]

\* the address VirtualAlloc returns for its n-th allocation
GatewayAddr(n) ==
    CASE target_pointer_width = 32 ->
            IF n = 1 THEN <<0, 0, 35, 0>> ELSE IF n = 2 THEN <<0, 0, 0, 176>> ELSE <<0, 0, n, 1>>
      [] target_pointer_width = 64 -> <<0, 0, n, 0, 240, 1, 0, 0>>
      [] OTHER -> <<0, 48 + n>>

\* VirtualAlloc(0, size, MEM_COMMIT | MEM_RESERVE, PAGE_EXECUTE_READWRITE): a fresh
\* zeroed block, or NULL on failure. The returned pointer is entry Len(gws) of gws.
VirtualAlloc(w, size, ok) ==
    LET n == Len(w.gws) + 1
        g == [addr |-> IF ok THEN GatewayAddr(n) ELSE NULL,
              bytes |-> [i \in 1..size |-> 0],
              state |-> IF ok THEN "allocated" ELSE "null",
              free_calls |-> 0,
              stale_frees |-> 0]
    IN  [w EXCEPT !.gws = Append(@, g),
                  !.trace = Append(@, Event("VirtualAlloc", "gateway", ok))]

\* VirtualFree(gateway, 0, MEM_RELEASE).ok(): releases an allocated block (the OS
\* may refuse); fails on an address that is not an allocated block. free_calls
\* counts the calls a block received, stale_frees those made after its release.
VirtualFree(w, g, ok) ==
    LET done == ok /\ w.gws[g].state = "allocated"
    IN  [ok |-> done,
         w |-> [w EXCEPT !.gws[g].state = IF done THEN "released" ELSE @,
                         !.gws[g].bytes = IF done THEN <<>> ELSE @,
                         !.gws[g].free_calls = @ + 1,
                         !.gws[g].stale_frees = IF w.gws[g].state = "released" THEN @ + 1 ELSE @,
                         !.trace = Append(@, Event("VirtualFree", w.gws[g].state, done))]]

(* ------------------------------ Hook ------------------------------------- *)

NoHook == [src |-> <<>>, len |-> 0, orig_bytes |-> <<>>, active |-> FALSE]
Ret(res, hook, w) == [res |-> res, hook |-> hook, w |-> w]

\* the displacement without the length of the jump instruction
rel32_from_jump_start(to, from) == wrapping_sub(to, from)

\* the displacement taken from the target back to the jump
rel32_backwards(to, from) == wrapping_sub(wrapping_sub(from, to), usize(5))

\* ((to as isize - from as isize) - 5) as usize
rel32(to, from) == wrapping_sub(wrapping_sub(to, from), usize(5))
\* the subtraction panics in a build with overflow checks
rel32_panics(to, from) ==
    /\ overflow_checks
    /\ \/ sub_overflows(to, from)
       \/ sub_overflows(wrapping_sub(to, from), usize(5))

\* the 64-bit jump with the target copied one byte early, into the displacement
jmp_bytes_misplaced(to) ==
    copy_nonoverlapping(to, <<255, 37, 0, 0, 0, 0, 0, 0, 0, 0, 0, 0, 0, 0>>, 5, 8)

\* the 14 bytes of the 64-bit jump: FF 25 00 00 00 00, then 8 bytes of the target
jmp_bytes(to) ==
    copy_nonoverlapping(to, <<255, 37, 0, 0, 0, 0, 0, 0, 0, 0, 0, 0, 0, 0>>, 6, 8)

\* a length check that lets JMP_SIZE - 1 through
too_small_off_by_one(len) == len < JMP_SIZE - 1

\* if len < JMP_SIZE { return Err(Error::ToSmall); }
too_small(len) == len < JMP_SIZE

\* the buffer as allocated, the copy from src forgotten
save_bytes_uncopied(m, len) == [i \in 1..len |-> 144]

\* let mut orig_bytes = vec![0x90; len]; copy_nonoverlapping(src, orig_bytes, len)
save_bytes(m, len) == copy_nonoverlapping(m, [i \in 1..len |-> 144], 0, len)

\* a copy back that stops one byte short of the saved length
restore_bytes_short(h, m) == copy_nonoverlapping(h.orig_bytes, m, 0, h.len - 1)

\* copy_nonoverlapping(self.orig_bytes, self.src, self.len)
restore_bytes(h, m) == copy_nonoverlapping(h.orig_bytes, m, 0, h.len)

\* the restore with a protection written into the code instead of the saved one
Hook_hook_restore_fixed(w, s, len, orig_bytes, old, o2) ==
    LET vp2 == VirtualProtect(w, "PAGE_EXECUTE_READ", o2)
    IN  IF ~vp2.ok THEN Ret("Windows", NoHook, vp2.w)
        ELSE Ret("Ok", [src |-> s, len |-> len, orig_bytes |-> orig_bytes, active |-> TRUE], vp2.w)

\* the restore with its result ignored: a handle is returned either way
Hook_hook_restore_unchecked(w, s, len, orig_bytes, old, o2) ==
    LET vp2 == VirtualProtect(w, old, o2)
    IN  Ret("Ok", [src |-> s, len |-> len, orig_bytes |-> orig_bytes, active |-> TRUE], vp2.w)

\* the second VirtualProtect of Hook::hook and what follows it
Hook_hook_restore(w, s, len, orig_bytes, old, o2) ==
    LET vp2 == VirtualProtect(w, old, o2)
    IN  IF ~vp2.ok THEN Ret("Windows", NoHook, vp2.w)
        ELSE Ret("Ok", [src |-> s, len |-> len, orig_bytes |-> orig_bytes, active |-> TRUE], vp2.w)

\* Hook::hook(src, dst, len); o1 and o2 are the outcomes of its two VirtualProtect calls
Hook_hook(w, s, dst, len, o1, o2) ==
    IF too_small(len) THEN Ret("ToSmall", NoHook, w)
    ELSE
    LET vp1 == VirtualProtect(w, "PAGE_EXECUTE_READWRITE", o1)
    IN  IF ~vp1.ok THEN Ret("Windows", NoHook, vp1.w)
        ELSE
        LET orig_bytes == save_bytes(vp1.w.mem, len)
            w2 == WriteSrc(vp1.w, write_bytes(vp1.w.mem, 144, len))
        IN  IF target_pointer_width = 32 THEN
                LET w3 == WriteSrc(w2, WriteAt(w2.mem, 0, usize(233)))
                IN  IF rel32_panics(dst, s) THEN Ret("panic", NoHook, w3)
                    ELSE Hook_hook_restore(WriteSrc(w3, WriteAt(w3.mem, 1, rel32(dst, s))),
                                           s, len, orig_bytes, vp1.old, o2)
            ELSE IF target_pointer_width = 64 THEN
                Hook_hook_restore(WriteSrc(w2, copy_nonoverlapping(jmp_bytes(dst), w2.mem, 0, JMP_SIZE)),
                                  s, len, orig_bytes, vp1.old, o2)
            ELSE Ret("InvalidTarget", NoHook, w2)

\* the handle after an unhook that forgot self.active = false
Hook_still_active(h) == h

\* self.active = false, the handle after a successful unhook
Hook_deactivated(h) == [h EXCEPT !.active = FALSE]

\* an unhook that clears the flag as soon as the bytes are back, before the
\* protection restore has succeeded
Hook_unhook_deactivating_early(h, w, o1, o2) ==
    IF ~h.active THEN Ret("Ok", h, w)
    ELSE
    LET vp1 == VirtualProtect(w, "PAGE_EXECUTE_READWRITE", o1)
    IN  IF ~vp1.ok THEN Ret("Windows", h, vp1.w)
        ELSE
        LET w2 == WriteSrc(vp1.w, restore_bytes(h, vp1.w.mem))
            vp2 == VirtualProtect(w2, vp1.old, o2)
        IN  IF ~vp2.ok THEN Ret("Windows", Hook_deactivated(h), vp2.w)
            ELSE Ret("Ok", Hook_deactivated(h), vp2.w)

\* an unhook that copies the saved bytes back after the protection restore
Hook_unhook_copy_after_restore(h, w, o1, o2) ==
    IF ~h.active THEN Ret("Ok", h, w)
    ELSE
    LET vp1 == VirtualProtect(w, "PAGE_EXECUTE_READWRITE", o1)
    IN  IF ~vp1.ok THEN Ret("Windows", h, vp1.w)
        ELSE
        LET vp2 == VirtualProtect(vp1.w, vp1.old, o2)
        IN  IF ~vp2.ok THEN Ret("Windows", h, vp2.w)
            ELSE Ret("Ok", Hook_deactivated(h), WriteSrc(vp2.w, restore_bytes(h, vp2.w.mem)))

\* an unhook without the early return for an inactive handle
Hook_unhook_unguarded(h, w, o1, o2) ==
    LET vp1 == VirtualProtect(w, "PAGE_EXECUTE_READWRITE", o1)
    IN  IF ~vp1.ok THEN Ret("Windows", h, vp1.w)
        ELSE
        LET w2 == WriteSrc(vp1.w, restore_bytes(h, vp1.w.mem))
            vp2 == VirtualProtect(w2, vp1.old, o2)
        IN  IF ~vp2.ok THEN Ret("Windows", h, vp2.w)
            ELSE Ret("Ok", Hook_deactivated(h), vp2.w)

\* Hook::unhook(&mut self)
Hook_unhook(h, w, o1, o2) ==
    IF ~h.active THEN Ret("Ok", h, w)
    ELSE
    LET vp1 == VirtualProtect(w, "PAGE_EXECUTE_READWRITE", o1)
    IN  IF ~vp1.ok THEN Ret("Windows", h, vp1.w)
        ELSE
        LET w2 == WriteSrc(vp1.w, restore_bytes(h, vp1.w.mem))
            vp2 == VirtualProtect(w2, vp1.old, o2)
        IN  IF ~vp2.ok THEN Ret("Windows", h, vp2.w)
            ELSE Ret("Ok", Hook_deactivated(h), vp2.w)

\* Hook::active(&self)
Hook_active(h) == h.active

\* impl Drop for Hook: let _ = self.unhook();
Hook_drop(h, w, o1, o2) == Hook_unhook(h, w, o1, o2)

(* ------------------------- TrampolineHook -------------------------------- *)

TRet(res, gateway, hook, w) == [res |-> res, gateway |-> gateway, hook |-> hook, w |-> w]

\* a TrampolineHook::hook that releases the gateway when Hook::hook fails
TrampolineHook_hook_inner_releasing(w, g, s, dst, len, o1, o2) ==
    LET r == Hook_hook(w, s, dst, len, o1, o2)
    IN  IF r.res # "Ok" THEN TRet(r.res, 0, NoHook, VirtualFree(r.w, g, TRUE).w)
        ELSE TRet("Ok", g, r.hook, r.w)

\* let hook = Hook::hook(src, dst, len)?; Ok(Self { gateway, hook })
TrampolineHook_hook_inner(w, g, s, dst, len, o1, o2) ==
    LET r == Hook_hook(w, s, dst, len, o1, o2)
    IN  IF r.res # "Ok" THEN TRet(r.res, 0, NoHook, r.w)
        ELSE TRet("Ok", g, r.hook, r.w)

\* TrampolineHook::hook(src, dst, len); oa is the outcome of VirtualAlloc, lands
\* says whether a write through a NULL gateway lands or faults, o1 and o2 are the
\* outcomes of the embedded Hook::hook's VirtualProtect calls
TrampolineHook_hook(w, s, dst, len, oa, lands, o1, o2) ==
    IF too_small(len) THEN TRet("ToSmall", 0, NoHook, w)
    ELSE
    LET w1 == VirtualAlloc(w, len + JMP_SIZE, oa)
        g == Len(w1.gws)
    IN  IF w1.gws[g].state = "null" /\ ~lands THEN TRet("AccessViolation", 0, NoHook, w1)
        ELSE
        LET w2 == WriteGw(w1, g, copy_nonoverlapping(w1.mem, w1.gws[g].bytes, 0, len))
        IN  IF target_pointer_width = 32 THEN
                LET w3 == WriteGw(w2, g, WriteAt(w2.gws[g].bytes, len, usize(233)))
                IN  IF rel32_panics(s, w3.gws[g].addr) THEN TRet("panic", 0, NoHook, w3)
                    ELSE TrampolineHook_hook_inner(
                            WriteGw(w3, g, WriteAt(w3.gws[g].bytes, len + 1, rel32(s, w3.gws[g].addr))),
                            g, s, dst, len, o1, o2)
            ELSE IF target_pointer_width = 64 THEN
                TrampolineHook_hook_inner(
                    WriteGw(w2, g, copy_nonoverlapping(jmp_bytes(wrapping_add(s, usize(len))),
                                                       w2.gws[g].bytes, len, JMP_SIZE)),
                    g, s, dst, len, o1, o2)
            ELSE TRet("InvalidTarget", 0, NoHook, w2)

\* TrampolineHook::active(&self)
TrampolineHook_active(t) == Hook_active(t.hook)

\* TrampolineHook::gateway(&self)
TrampolineHook_gateway(t) == t.gateway

\* an unhook that restores the source first and releases the gateway after it
TrampolineHook_unhook_restore_first(t, w, of, o1, o2) ==
    IF ~TrampolineHook_active(t) THEN TRet("Ok", t.gateway, t.hook, w)
    ELSE
    LET r == Hook_unhook(t.hook, w, o1, o2)
    IN  IF r.res # "Ok" THEN TRet(r.res, t.gateway, r.hook, r.w)
        ELSE LET f == VirtualFree(r.w, t.gateway, of)
             IN  TRet(IF f.ok THEN "Ok" ELSE "Windows", t.gateway, r.hook, f.w)

\* TrampolineHook::unhook(&mut self); of is the outcome of VirtualFree
TrampolineHook_unhook(t, w, of, o1, o2) ==
    IF ~TrampolineHook_active(t) THEN TRet("Ok", t.gateway, t.hook, w)
    ELSE
    LET f == VirtualFree(w, t.gateway, of)
    IN  IF ~f.ok THEN TRet("Windows", t.gateway, t.hook, f.w)
        ELSE LET r == Hook_unhook(t.hook, f.w, o1, o2)
             IN  TRet(r.res, t.gateway, r.hook, r.w)

\* the destructor alone, without the drop of the field hook
TrampolineHook_drop_self_only(t, w, of, o1, o2, o3, o4) ==
    LET r == TrampolineHook_unhook(t, w, of, o1, o2)
    IN  TRet(r.res, t.gateway, r.hook, r.w)

\* impl Drop for TrampolineHook: let _ = self.unhook(); and then the drop of the
\* field hook, which runs impl Drop for Hook
TrampolineHook_drop(t, w, of, o1, o2, o3, o4) ==
    LET r == TrampolineHook_unhook(t, w, of, o1, o2)
        d == Hook_drop(r.hook, r.w, o3, o4)
    IN  TRet(d.res, t.gateway, d.hook, d.w)

(* ------------------------------ the caller ------------------------------- *)

\* the addresses a caller hooks, and the addresses it redirects to
Sources ==
    CASE target_pointer_width = 32 -> {<<0, 0, 0, 48>>}
      [] target_pointer_width = 64 -> {<<0, 16, 52, 18, 246, 127, 0, 0>>}
      [] OTHER -> {<<0, 16>>}
Dests ==
    CASE target_pointer_width = 32 -> {<<0, 255, 255, 47>>, <<0, 0, 0, 160>>}
      [] target_pointer_width = 64 -> {<<0, 32, 0, 0, 250, 127, 0, 0>>, <<0, 16, 0, 128, 1, 0, 0, 0>>}
      [] OTHER -> {<<0, 32>>, <<0, 8>>}

\* what the source region holds before anything is hooked, and its protection
Regions ==
    { [mem |-> [i \in 1..RegionLen |-> 16 + i], prot |-> "PAGE_EXECUTE_READ"],
      [mem |-> [i \in 1..RegionLen |-> IF i <= 5 THEN <<139, 255, 85, 139, 236>>[i] ELSE 144],
       prot |-> "PAGE_EXECUTE_WRITECOPY"] }

Vacant == [state |-> "vacant", kind |-> "none", gateway |-> 0, hook |-> NoHook,
           pre |-> <<>>, dst |-> <<>>]

NoCall == [op |-> "none", h |-> 0, len |-> 0, dst |-> <<>>, res |-> "Ok", trace |-> <<>>,
           mem0 |-> <<>>, prot0 |-> "", ngws0 |-> 0, active0 |-> FALSE, pre |-> <<>>]

\* a call on handle h, with what it started from: the source bytes, the
\* protection, the number of gateways, whether the handle was active, and the
\* source bytes from before the handle's hook() (pre)
Call(op, h, len, dst, res, trace, active0) ==
    [op |-> op, h |-> h, len |-> len, dst |-> dst, res |-> res, trace |-> trace,
     mem0 |-> mem, prot0 |-> prot, ngws0 |-> Len(gws), active0 |-> active0,
     pre |-> hooks[h].pre]

InitState ==
    /\ src \in Sources
    /\ \E r \in Regions : mem = r.mem /\ prot = r.prot
    /\ gws = <<>>
    /\ hooks = [h \in Handles |-> Vacant]
    /\ failures = 0
    /\ last = NoCall

\* the two builds lib.rs defines JMP_SIZE for; the build profile matters only to
\* the isize subtractions of the 32-bit branch
Init ==
    /\ \/ target_pointer_width = 32 /\ JMP_SIZE = 5 /\ overflow_checks \in BOOLEAN
       \/ target_pointer_width = 64 /\ JMP_SIZE = 14 /\ overflow_checks = FALSE
    /\ InitState

\* the process is gone after an access violation
Running == last.res # "AccessViolation"

\* handles are created in order: the caller's names for them do not matter
NextHandle(h) ==
    /\ hooks[h].state = "vacant"
    /\ \A k \in Handles : k < h => hooks[k].state # "vacant"

\* a dropped handle is gone: only its kind and its gateway are remembered
Dropped(slot) == [Vacant EXCEPT !.state = "dropped", !.kind = slot.kind, !.gateway = slot.gateway]

\* the calls of a trace that the OS refused, a VirtualFree of a block that is
\* not allocated aside (that one fails by itself)
Refused(trace) ==
    Cardinality({i \in 1..Len(trace) :
        /\ ~trace[i].ok
        /\ ~(trace[i].call = "VirtualFree" /\ trace[i].arg # "allocated")})

\* the outcomes of the n OS calls a call may make: TRUE where the OS does as asked
Outcomes(n) ==
    {o \in [1..n -> BOOLEAN] : Cardinality({i \in 1..n : ~o[i]}) <= MaxFailures - failures}

Commit(w) ==
    /\ failures + Refused(w.trace) <= MaxFailures
    /\ failures' = failures + Refused(w.trace)
    /\ mem' = w.mem
    /\ prot' = w.prot
    /\ gws' = w.gws
    /\ UNCHANGED <<target_pointer_width, JMP_SIZE, overflow_checks, src>>

\* let hook = Hook::hook(src, dst, len)
HookHook(h) ==
    /\ Running
    /\ NextHandle(h)
    /\ \E dst \in Dests, len \in Lens, o \in Outcomes(2) :
        LET r == Hook_hook(World, src, dst, len, o[1], o[2])
        IN  /\ Commit(r.w)
            /\ hooks' = IF r.res = "Ok"
                        THEN [hooks EXCEPT ![h] = [state |-> "live", kind |-> "Hook", gateway |-> 0,
                                                   hook |-> r.hook, pre |-> mem, dst |-> dst]]
                        ELSE [hooks EXCEPT ![h] = [Vacant EXCEPT !.state = "failed"]]
            /\ last' = Call("Hook::hook", h, len, dst, r.res, r.w.trace, FALSE)

\* let hook = TrampolineHook::hook(src, dst, len)
TrampolineHookHook(h) ==
    /\ Running
    /\ NextHandle(h)
    /\ Len(gws) < MaxGateways
    /\ \E dst \in Dests, len \in Lens, o \in Outcomes(3), lands \in BOOLEAN :
        LET r == TrampolineHook_hook(World, src, dst, len, o[1], lands, o[2], o[3])
        IN  /\ Commit(r.w)
            /\ hooks' = IF r.res = "Ok"
                        THEN [hooks EXCEPT ![h] = [state |-> "live", kind |-> "TrampolineHook",
                                                   gateway |-> r.gateway, hook |-> r.hook,
                                                   pre |-> mem, dst |-> dst]]
                        ELSE [hooks EXCEPT ![h] = [Vacant EXCEPT !.state = "failed"]]
            /\ last' = Call("TrampolineHook::hook", h, len, dst, r.res, r.w.trace, FALSE)

\* hook.unhook() on a Hook
HookUnhook(h) ==
    /\ Running
    /\ hooks[h].state = "live" /\ hooks[h].kind = "Hook"
    /\ \E o \in Outcomes(2) :
        LET r == Hook_unhook(hooks[h].hook, World, o[1], o[2])
        IN  /\ Commit(r.w)
            /\ hooks' = [hooks EXCEPT ![h].hook = r.hook]
            /\ last' = Call("Hook::unhook", h, hooks[h].hook.len, hooks[h].dst, r.res, r.w.trace,
                            Hook_active(hooks[h].hook))

\* hook.unhook() on a TrampolineHook
TrampolineHookUnhook(h) ==
    /\ Running
    /\ hooks[h].state = "live" /\ hooks[h].kind = "TrampolineHook"
    /\ gws[hooks[h].gateway].free_calls < MaxFrees
    /\ \E o \in Outcomes(3) :
        LET r == TrampolineHook_unhook(hooks[h], World, o[1], o[2], o[3])
        IN  /\ Commit(r.w)
            /\ hooks' = [hooks EXCEPT ![h].hook = r.hook]
            /\ last' = Call("TrampolineHook::unhook", h, hooks[h].hook.len, hooks[h].dst, r.res,
                            r.w.trace, TrampolineHook_active(hooks[h]))

\* a Hook goes out of scope
HookDrop(h) ==
    /\ Running
    /\ hooks[h].state = "live" /\ hooks[h].kind = "Hook"
    /\ \E o \in Outcomes(2) :
        LET r == Hook_drop(hooks[h].hook, World, o[1], o[2])
        IN  /\ Commit(r.w)
            /\ hooks' = [hooks EXCEPT ![h] = Dropped(hooks[h])]
            /\ last' = Call("Hook::drop", h, hooks[h].hook.len, hooks[h].dst, r.res, r.w.trace,
                            Hook_active(hooks[h].hook))

\* a TrampolineHook goes out of scope
TrampolineHookDrop(h) ==
    /\ Running
    /\ hooks[h].state = "live" /\ hooks[h].kind = "TrampolineHook"
    /\ \E o \in Outcomes(5) :
        LET r == TrampolineHook_drop(hooks[h], World, o[1], o[2], o[3], o[4], o[5])
        IN  /\ Commit(r.w)
            /\ hooks' = [hooks EXCEPT ![h] = Dropped(hooks[h])]
            /\ last' = Call("TrampolineHook::drop", h, hooks[h].hook.len, hooks[h].dst, r.res,
                            r.w.trace, TrampolineHook_active(hooks[h]))

Next ==
    \E h \in Handles :
        \/ HookHook(h)
        \/ TrampolineHookHook(h)
        \/ HookUnhook(h)
        \/ TrampolineHookUnhook(h)
        \/ HookDrop(h)
        \/ TrampolineHookDrop(h)

Spec == Init /\ [][Next]_vars

\* A port to a target of another pointer width: hook.rs has a branch for it, lib.rs
\* defines no JMP_SIZE for it, so the port's JMP_SIZE is one of the two it knows.
InitAnyWidth ==
    \/ Init
    \/ /\ target_pointer_width = 16 /\ JMP_SIZE \in {5, 14} /\ overflow_checks = FALSE
       /\ InitState

SpecAnyWidth == InitAnyWidth /\ [][Next]_vars

(* ------------------------------ properties ------------------------------- *)

HookCalls == {"Hook::hook", "TrampolineHook::hook"}
UnhookCalls == {"Hook::unhook", "TrampolineHook::unhook"}
DropCalls == {"Hook::drop", "TrampolineHook::drop"}

\* the events of a trace that satisfy P
Events(trace, P(_)) == {i \in 1..Len(trace) : P(trace[i])}
IsSrcWrite(e) == e.call = "write" /\ e.arg = "src"
IsGwWrite(e) == e.call = "write" /\ e.arg = "gateway"
IsProtect(e) == e.call = "VirtualProtect"
IsAlloc(e) == e.call = "VirtualAlloc"
IsFree(e) == e.call = "VirtualFree"
IsRefused(e) == ~e.ok

\* the first n bytes of the source region
Patch(m, n) == SubSeq(m, 1, n)

\* C1: a successful hook() followed by a successful unhook() of the handle, for a
\* Hook and for a TrampolineHook, leaves the bytes of [source, source+length)
\* equal to what they were before that hook().
C1_HookThenUnhookRestores ==
    (last.op \in UnhookCalls /\ last.res = "Ok" /\ last.active0)
        => Patch(mem, last.len) = Patch(last.pre, last.len)

\* C1 witness: an unhook() of an active Hook succeeded and changed the source
\* bytes back to what they were before hook().
C1_Witness ==
    /\ last.op = "Hook::unhook" /\ last.res = "Ok" /\ last.active0
    /\ last.len > JMP_SIZE
    /\ mem # last.mem0
    /\ Patch(mem, last.len) = Patch(last.pre, last.len)

\* C2: hook() with a length below JMP_SIZE fails with ToSmall, for a Hook and for
\* a TrampolineHook, and then no byte of source is written, the protection is not
\* changed, no gateway is allocated and no OS call is made.
C2_TooSmallNoMutation ==
    (last.op \in HookCalls /\ last.len < JMP_SIZE)
        => /\ last.res = "ToSmall"
           /\ mem = last.mem0
           /\ prot = last.prot0
           /\ Len(gws) = last.ngws0
           /\ last.trace = <<>>
           /\ hooks[last.h].state = "failed"

\* C2 witness: a TrampolineHook::hook call with a length below JMP_SIZE returned.
C2_Witness ==
    /\ last.op = "TrampolineHook::hook"
    /\ last.len = JMP_SIZE - 1
    /\ last.res = "ToSmall"

LiveTrampolines == {h \in Handles : hooks[h].state = "live" /\ hooks[h].kind = "TrampolineHook"}

\* C3: whenever a TrampolineHook reports active() == true, the gateway() it
\* returns (a block VirtualAlloc handed out) is still allocated.
C3_ActiveGatewayAllocated ==
    \A h \in LiveTrampolines :
        (TrampolineHook_active(hooks[h]) /\ gws[TrampolineHook_gateway(hooks[h])].state # "null")
            => gws[TrampolineHook_gateway(hooks[h])].state = "allocated"

\* C4: once a TrampolineHook is destroyed, after any unhook() calls, VirtualFree
\* has been called on its gateway (never zero times), and never a second time on
\* the gateway already released.
C4_GatewayReleasedExactlyOnce ==
    \A h \in Handles :
        (/\ hooks[h].state = "dropped" /\ hooks[h].kind = "TrampolineHook"
         /\ gws[hooks[h].gateway].state # "null")
            => /\ gws[hooks[h].gateway].free_calls >= 1
               /\ gws[hooks[h].gateway].stale_frees = 0

\* C5: the destruction of an active Hook or TrampolineHook restores the bytes of
\* [source, source+length) to what they were before its hook(), whenever every
\* VirtualProtect call of the destruction succeeds, also when the release of the
\* gateway fails.
C5_DropRestores ==
    (/\ last.op \in DropCalls /\ last.active0
     /\ Events(last.trace, IsProtect) \cap Events(last.trace, IsRefused) = {})
        => Patch(mem, last.len) = Patch(last.pre, last.len)

\* C5 witness: a TrampolineHook was destroyed while active, the OS refused to
\* release its gateway, and the source bytes are back.
C5_Witness ==
    /\ last.op = "TrampolineHook::drop" /\ last.active0
    /\ \E i \in Events(last.trace, IsFree) : ~last.trace[i].ok /\ last.trace[i].arg = "allocated"
    /\ mem # last.mem0
    /\ Patch(mem, last.len) = Patch(last.pre, last.len)

Wrote == Events(last.trace, IsSrcWrite) # {}

\* C6 as stated: after a Hook::hook or Hook::unhook call that wrote to the source
\* region returns, with success or with failure, the protection of the region is
\* what it was before the call.
C6_ProtectionAlwaysRestored ==
    (last.op \in {"Hook::hook", "Hook::unhook"} /\ Wrote /\ last.res \in {"Ok", "Windows"})
        => prot = last.prot0

\* C6 amended: after a Hook::hook or Hook::unhook call that wrote to the source
\* region returns success, the protection of the region is what it was before the
\* call; when such a call returns a failure, it is its restoring VirtualProtect
\* that failed, and the region is left PAGE_EXECUTE_READWRITE.
C6_ProtectionRestoredOnSuccess ==
    (last.op \in {"Hook::hook", "Hook::unhook"} /\ Wrote)
        => /\ last.res = "Ok" => prot = last.prot0
           /\ last.res = "Windows" =>
                /\ prot = "PAGE_EXECUTE_READWRITE"
                /\ last.trace[Len(last.trace)] = Event("VirtualProtect", last.prot0, FALSE)

\* C6 witness: a Hook::hook call patched the source and put back a protection
\* other than the one it worked under.
C6_Witness ==
    /\ last.op = "Hook::hook" /\ last.res = "Ok" /\ Wrote
    /\ mem # last.mem0
    /\ prot = last.prot0
    /\ prot = "PAGE_EXECUTE_WRITECOPY"

C8_AllocFailureReported ==
    (/\ last.op = "TrampolineHook::hook"
     /\ \E i \in Events(last.trace, IsAlloc) : ~last.trace[i].ok)
        => /\ last.res = "Windows"
           /\ Events(last.trace, IsGwWrite) = {}
           /\ mem = last.mem0

\* the address a 32-bit relative jump at address at, with displacement disp, goes to
JumpTarget32(at, disp) == wrapping_add(wrapping_add(at, usize(5)), disp)

\* C9: after a successful TrampolineHook::hook with length L, the first L bytes of
\* the gateway are the bytes source held before the call, and the bytes from
\* offset L are a jump to source + L: on 32-bit E9 and a displacement that takes
\* the jump at gateway + L to source + L modulo 2^32, on 64-bit FF 25 00 00 00 00
\* and the 8 bytes of source + L.
C9_GatewayContent ==
    (last.op = "TrampolineHook::hook" /\ last.res = "Ok") =>
        LET g == gws[TrampolineHook_gateway(hooks[last.h])]
            L == last.len
        IN  /\ Len(g.bytes) = L + JMP_SIZE
            /\ SubSeq(g.bytes, 1, L) = Patch(last.mem0, L)
            /\ target_pointer_width = 32 =>
                /\ g.bytes[L + 1] = 233
                /\ JumpTarget32(wrapping_add(g.addr, usize(L)), SubSeq(g.bytes, L + 2, L + 5))
                       = wrapping_add(src, usize(L))
            /\ target_pointer_width = 64 =>
                /\ SubSeq(g.bytes, L + 1, L + 6) = <<255, 37, 0, 0, 0, 0>>
                /\ SubSeq(g.bytes, L + 7, L + 14) = wrapping_add(src, usize(L))

\* C9 witness: a TrampolineHook was created with a length above the minimum, its
\* gateway is an allocated block, and the source, now patched, differs from what
\* the gateway holds.
C9_Witness ==
    /\ last.op = "TrampolineHook::hook" /\ last.res = "Ok"
    /\ last.len > JMP_SIZE
    /\ gws[hooks[last.h].gateway].state = "allocated"
    /\ Patch(mem, last.len) # SubSeq(gws[hooks[last.h].gateway].bytes, 1, last.len)

\* the handles that exist
Live == {h \in Handles : hooks[h].state = "live"}

\* C10: a handle returned by a successful hook() is active, a handle is inactive
\* after a successful unhook(), and no step makes an inactive handle active again,
\* for a Hook and for a TrampolineHook.
C10_ActiveOneWay ==
    /\ []((last.op \in HookCalls /\ last.res = "Ok")
            => (hooks[last.h].state = "live" /\ Hook_active(hooks[last.h].hook)))
    /\ []((last.op \in UnhookCalls /\ last.res = "Ok") => ~Hook_active(hooks[last.h].hook))
    /\ [][\A h \in Live : ~Hook_active(hooks[h].hook) => ~Hook_active(hooks'[h].hook)]_vars

\* C10 witness: an unhook() call was made on a TrampolineHook that an earlier
\* unhook() had made inactive.
C10_Witness ==
    /\ last.op = "TrampolineHook::unhook" /\ last.res = "Ok"
    /\ ~last.active0
    /\ hooks[last.h].state = "live"
    /\ ~TrampolineHook_active(hooks[last.h])

\* C11: an unhook() call on a handle that an earlier unhook() made inactive, a
\* Hook or a TrampolineHook, returns Ok, calls no OS primitive and writes nothing,
\* and leaves the source bytes, the protection, the gateways and the handle as
\* they were.
C11_SecondUnhookIsNoOp ==
    (last.op \in UnhookCalls /\ ~last.active0)
        => /\ last.res = "Ok"
           /\ last.trace = <<>>
           /\ mem = last.mem0 /\ prot = last.prot0
           /\ Len(gws) = last.ngws0
           /\ hooks[last.h].state = "live"
           /\ ~Hook_active(hooks[last.h].hook)
           /\ hooks[last.h].hook.len = last.len

\* C11 witness: a Hook was unhooked a second time while another handle's jump
\* is on the source, so a repeated restore would have been visible.
C11_Witness ==
    /\ last.op = "Hook::unhook" /\ ~last.active0 /\ last.res = "Ok"
    /\ Patch(mem, last.len) # Patch(last.pre, last.len)
    /\ hooks[last.h].hook.orig_bytes = Patch(last.pre, last.len)

\* the 4 bytes of (to - from - 5) modulo 2^32, least significant byte first
Disp32(to, from) == AddC(AddC(to, Complement(from), 1), <<250, 255, 255, 255>>, 1)

\* C12: on a 32-bit target, after a successful Hook::hook (called directly or by
\* TrampolineHook::hook) the first 5 bytes at the source are E9 followed by the 4
\* bytes, least significant first, of (destination - source - 5) modulo 2^32,
\* for a destination above or below the source, and the jump lands on the
\* destination: source + 5 + displacement = destination modulo 2^32.
C12_Jump32Encoding ==
    (target_pointer_width = 32 /\ last.op \in HookCalls /\ last.res = "Ok")
        => /\ mem[1] = 233
           /\ SubSeq(mem, 2, 5) = Disp32(last.dst, src)
           /\ JumpTarget32(src, SubSeq(mem, 2, 5)) = last.dst

\* C12 witness: a successful Hook::hook on a 32-bit target whose destination
\* lies below the source, so the displacement is negative.
C12_Witness ==
    /\ target_pointer_width = 32
    /\ last.op = "Hook::hook" /\ last.res = "Ok"
    /\ last.dst[4] < src[4]
    /\ mem[5] >= 128

\* C13: on a 64-bit target, after a successful Hook::hook (called directly or by
\* TrampolineHook::hook) the first 14 bytes at the source are FF 25 00 00 00 00
\* followed by the 8 bytes of the destination address, least significant first.
C13_Jump64Encoding ==
    (target_pointer_width = 64 /\ last.op \in HookCalls /\ last.res = "Ok")
        => /\ Len(last.dst) = 8
           /\ Patch(mem, 14) = <<255, 37, 0, 0, 0, 0>> \o last.dst

\* C13 witness: a successful Hook::hook on a 64-bit target over a region that
\* held other bytes, with a destination whose upper half is not zero.
C13_Witness ==
    /\ target_pointer_width = 64
    /\ last.op = "Hook::hook" /\ last.res = "Ok"
    /\ Patch(last.mem0, 14) # Patch(mem, 14)
    /\ mem[11] # 0

\* the last call was TrampolineHook::unhook on an active handle
ActiveTrampolineUnhook == last.op = "TrampolineHook::unhook" /\ last.active0

\* the gateway release comes first, and nothing follows a release that failed:
\* the source, the protection and the handle stay as they were
ReleaseFirst ==
    /\ last.trace # <<>> /\ IsFree(last.trace[1])
    /\ ~last.trace[1].ok
        => /\ Len(last.trace) = 1
           /\ last.res = "Windows"
           /\ mem = last.mem0 /\ prot = last.prot0
           /\ TrampolineHook_active(hooks[last.h])

\* the gateway was released and the embedded Hook::unhook then failed
ReleasedThenInnerFailed == last.trace[1].ok /\ last.res # "Ok"

\* C14 as stated: TrampolineHook::unhook on an active hook releases the gateway
\* first and runs the embedded unhook only if the release succeeded; a failed
\* release leaves the source patched and the hook active; when the release
\* succeeds and the embedded unhook fails, the call fails with the gateway
\* released, active() still true and the source still holding the jump.
C14_InnerFailureLeavesJump ==
    ActiveTrampolineUnhook
        => /\ ReleaseFirst
           /\ ReleasedThenInnerFailed
                => /\ gws[hooks[last.h].gateway].state = "released"
                   /\ TrampolineHook_active(hooks[last.h])
                   /\ mem = last.mem0

\* C14 amended: as above, except that the source still holds the jump only when
\* the embedded unhook failed at its first protection change; when it failed at
\* the protection restore, the saved bytes are already back on the source and the
\* region is left read/write/execute.
C14_InnerFailureByStep ==
    ActiveTrampolineUnhook
        => /\ ReleaseFirst
           /\ ReleasedThenInnerFailed
                => /\ last.res = "Windows"
                   /\ gws[hooks[last.h].gateway].state = "released"
                   /\ TrampolineHook_active(hooks[last.h])
                   /\ IF ~last.trace[2].ok
                      THEN Len(last.trace) = 2 /\ mem = last.mem0 /\ prot = last.prot0
                      ELSE /\ Len(last.trace) = 4 /\ ~last.trace[4].ok
                           /\ Patch(mem, last.len) = hooks[last.h].hook.orig_bytes
                           /\ prot = "PAGE_EXECUTE_READWRITE"

\* C14 witness: the gateway was released, the embedded unhook copied the saved
\* bytes back over the jump and then failed at the protection restore.
C14_Witness ==
    /\ ActiveTrampolineUnhook
    /\ Len(last.trace) = 4 /\ last.trace[1].ok /\ ~last.trace[4].ok
    /\ last.res = "Windows"
    /\ TrampolineHook_active(hooks[last.h])
    /\ Patch(mem, last.len) # Patch(last.mem0, last.len)

\* the gateways no handle refers to
Orphans == {g \in 1..Len(gws) : \A h \in Handles : hooks[h].gateway # g}

\* C15: when the embedded Hook::hook fails inside TrampolineHook::hook, at its
\* first or at its second VirtualProtect, TrampolineHook::hook returns that
\* failure and no handle, the gateway it allocated is not released by the call,
\* and no handle refers to that gateway, so nothing releases it afterwards.
C15_FailedHookLeaksGateway ==
    /\ (last.op = "TrampolineHook::hook" /\ Events(last.trace, IsProtect) # {}
            /\ \E i \in Events(last.trace, IsProtect) : ~last.trace[i].ok)
        => /\ last.res = "Windows"
           /\ hooks[last.h].state = "failed"
           /\ Len(gws) = last.ngws0 + 1
           /\ Events(last.trace, IsFree) = {}
           /\ Len(gws) \in Orphans
           /\ IsAlloc(last.trace[1])
           /\ last.trace[1].ok => gws[Len(gws)].state = "allocated"
    /\ \A g \in Orphans : gws[g].state # "released" /\ gws[g].free_calls = 0

\* C15 witness: a TrampolineHook::hook whose gateway was allocated and written,
\* whose embedded Hook::hook patched the source and failed at its protection
\* restore, and a later call on another handle that left the gateway allocated.
C15_Witness ==
    /\ ~overflow_checks
    /\ last.op \in UnhookCalls \cup DropCalls
    /\ \E g \in Orphans :
        /\ gws[g].state = "allocated"
        /\ gws[g].bytes # [i \in 1..Len(gws[g].bytes) |-> 0]
    /\ prot = "PAGE_EXECUTE_READWRITE"

\* the bytes m begin with the complete jump from src to dst
JumpTo(m, dst) ==
    IF target_pointer_width = 32
    THEN m[1] = 233 /\ JumpTarget32(src, SubSeq(m, 2, 5)) = dst
    ELSE Patch(m, 14) = <<255, 37, 0, 0, 0, 0>> \o dst

\* the last call was a Hook::hook that patched the source and whose protection
\* restore, its last step, was refused
HookRestoreFailed ==
    /\ last.op = "Hook::hook" /\ Wrote
    /\ IsProtect(last.trace[Len(last.trace)])
    /\ ~last.trace[Len(last.trace)].ok

\* C16: when the protection restore at the end of Hook::hook fails, hook()
\* returns a failure and no handle, while the source holds the complete jump to
\* the destination (and NOPs up to the length) and the region is left
\* read/write/execute; the call does nothing after the failed restore, no handle
\* for it ever exists, so no destructor restores the bytes, and no later step
\* takes the region out of read/write/execute.
C16_RestoreFailureLeavesPatch ==
    /\ [](HookRestoreFailed
            => /\ last.res = "Windows"
               /\ hooks[last.h].state = "failed"
               /\ hooks[last.h].hook = NoHook
               /\ JumpTo(mem, last.dst)
               /\ \A i \in (JMP_SIZE + 1)..last.len : mem[i] = 144
               /\ prot = "PAGE_EXECUTE_READWRITE"
               /\ Cardinality(Events(last.trace, IsProtect)) = 2)
    /\ [][\A h \in Handles : hooks[h].state = "failed" => hooks'[h] = hooks[h]]_vars
    /\ [][prot = "PAGE_EXECUTE_READWRITE" => prot' = "PAGE_EXECUTE_READWRITE"]_vars

\* C16 witness: a Hook::hook longer than the jump replaced the bytes of a region
\* that was not writable and failed at its protection restore.
C16_Witness ==
    /\ HookRestoreFailed
    /\ last.len > JMP_SIZE
    /\ last.prot0 # "PAGE_EXECUTE_READWRITE"
    /\ Patch(mem, last.len) # Patch(last.mem0, last.len)

\* the VirtualProtect calls of the last call that were refused
RefusedProtects == {i \in Events(last.trace, IsProtect) : ~last.trace[i].ok}

\* C17: a Hook::unhook in which either VirtualProtect is refused returns that
\* failure, and whenever Hook::unhook returns a failure the handle is still
\* active, also when the saved bytes are already back on the source; an unhook()
\* call, on a Hook or a TrampolineHook, makes an active handle inactive only when
\* it made exactly two VirtualProtect calls and both succeeded.
C17_FailedUnhookStaysActive ==
    /\ last.op = "Hook::unhook"
        => /\ RefusedProtects # {} <=> last.res = "Windows"
           /\ last.res \in {"Ok", "Windows"}
           /\ last.res # "Ok" => Hook_active(hooks[last.h].hook)
    /\ (last.op \in UnhookCalls /\ last.active0 /\ ~Hook_active(hooks[last.h].hook))
        => /\ last.res = "Ok"
           /\ Cardinality(Events(last.trace, IsProtect)) = 2
           /\ RefusedProtects = {}

\* C17 witness: a Hook::unhook copied the saved bytes back over the jump, failed
\* at the protection restore, and the handle is still active.
C17_Witness ==
    /\ last.op = "Hook::unhook" /\ last.res = "Windows"
    /\ Wrote
    /\ Hook_active(hooks[last.h].hook)
    /\ Patch(mem, last.len) = hooks[last.h].hook.orig_bytes
    /\ Patch(mem, last.len) # Patch(last.mem0, last.len)

\* the calls that run Hook::hook or Hook::unhook once
SingleHookCalls == {"Hook::hook", "Hook::unhook", "Hook::drop",
                    "TrampolineHook::hook", "TrampolineHook::unhook"}

\* the first VirtualProtect of the last call: the toggle to read/write/execute
Toggle == CHOOSE f \in Events(last.trace, IsProtect) :
              \A j \in Events(last.trace, IsProtect) : f <= j

\* every write to the source comes after a toggle to read/write/execute that
\* succeeded and before any other VirtualProtect of the call
WritesInsideWindow ==
    \A i \in Events(last.trace, IsSrcWrite) :
        /\ Events(last.trace, IsProtect) # {}
        /\ Toggle < i
        /\ last.trace[Toggle].ok
        /\ last.trace[Toggle].arg = "PAGE_EXECUTE_READWRITE"
        /\ \A j \in Events(last.trace, IsProtect) : j = Toggle \/ j > i

\* C18: every write that Hook::hook and Hook::unhook make to the source region,
\* called directly or by a TrampolineHook or a Hook destructor, comes after the
\* VirtualProtect to read/write/execute succeeded and before the VirtualProtect
\* that restores the old protection is issued; when the first VirtualProtect of
\* Hook::hook or Hook::unhook is refused the call fails with the source bytes and
\* the protection as they were, Hook::hook giving no handle and Hook::unhook
\* leaving the handle active.
C18_WritesInsideProtectionWindow ==
    /\ last.op \in SingleHookCalls => WritesInsideWindow
    /\ (last.op \in {"Hook::hook", "Hook::unhook"}
            /\ Events(last.trace, IsProtect) # {} /\ ~last.trace[Toggle].ok)
        => /\ last.res = "Windows"
           /\ Len(last.trace) = 1
           /\ mem = last.mem0 /\ prot = last.prot0
           /\ last.op = "Hook::hook" => hooks[last.h].state = "failed"
           /\ last.op = "Hook::unhook"
                => /\ last.active0 /\ Hook_active(hooks[last.h].hook)
                   /\ hooks[last.h].hook.len = last.len
                   /\ hooks[last.h].hook.orig_bytes = Patch(last.pre, last.len)

\* C18 witness: a Hook::unhook wrote the saved bytes over other bytes between a
\* successful toggle and a restore, on a region that was not writable before.
C18_Witness ==
    /\ last.op = "Hook::unhook"
    /\ Cardinality(Events(last.trace, IsProtect)) = 2
    /\ Wrote
    /\ last.prot0 # "PAGE_EXECUTE_READWRITE"
    /\ mem # last.mem0

\* C19: no operation is retried: during one hook() call, one unhook() call or
\* one destruction of a handle, the protection toggle, the protection restore
\* and the gateway release are each invoked at most once and never again after
\* a failure was reported; destroying a handle copies the saved bytes back to
\* the source at most once.
C19_NoRetry ==
    last.op \in HookCalls \cup UnhookCalls \cup DropCalls
        => /\ Cardinality(Events(last.trace, IsFree)) <= 1
           /\ Cardinality(Events(last.trace, IsProtect)) <= 2
           /\ \A i \in RefusedProtects :
                \A j \in Events(last.trace, IsProtect) : j <= i
           /\ last.op \in UnhookCalls \cup DropCalls
                => Cardinality(Events(last.trace, IsSrcWrite)) <= 1

\* two Hooks, A in the first handle and B in the second, on the same region with
\* the same length, no other handle, and no OS call refused so far
Stacked ==
    /\ failures = 0
    /\ \A h \in Handles : h > 2 => hooks[h].state = "vacant"
    /\ hooks[1].state = "live" /\ hooks[1].kind = "Hook"
    /\ hooks[2].state = "live" /\ hooks[2].kind = "Hook"
    /\ hooks[1].hook.len = hooks[2].hook.len

\* the last call was a successful Hook::unhook of handle h, active until then
Unhooked(h) ==
    /\ last.op = "Hook::unhook" /\ last.h = h
    /\ last.active0 /\ last.res = "Ok"

\* C20: with Hook A and then Hook B installed on the same region with the same
\* length and every OS call succeeding, unhooking B while A is still installed
\* puts back exactly what B saved, so the region holds A's jump again, and
\* unhooking A after that leaves the region as it was before A was installed.
C20_ReverseOrderUnhook ==
    /\ (Stacked /\ Unhooked(2) /\ Hook_active(hooks[1].hook))
        => /\ Patch(mem, last.len) = hooks[2].hook.orig_bytes
           /\ mem = hooks[2].pre
           /\ JumpTo(mem, hooks[1].dst)
           /\ \A i \in (JMP_SIZE + 1)..last.len : mem[i] = 144
    /\ (Stacked /\ Unhooked(1) /\ ~Hook_active(hooks[2].hook))
        => /\ mem = hooks[1].pre
           /\ prot = last.prot0

\* C20 witness: A and B jumped to different destinations, B was unhooked first
\* and A after it, and the last unhook changed the region.
C20_Witness ==
    /\ Stacked /\ Unhooked(1) /\ ~Hook_active(hooks[2].hook)
    /\ hooks[1].dst # hooks[2].dst
    /\ hooks[2].pre # hooks[1].pre
    /\ mem # last.mem0

====
